---- MODULE Spec2Model ----
(***************************************************************************)
(* Artifact manifest translation and persistence                           *)
(* (nexus/pkg/artifacts/manifest.go).                                      *)
(*                                                                         *)
(* Go values are represented as tagged tuples so that values of different  *)
(* Go types are never confused:                                            *)
(*   *string            <<>> (nil) or <<s>> (pointer to s)                 *)
(*   map[string]T       <<"nil">> (nil map) or <<"map", f>>, f a function  *)
(*   interface{}        <<"nil">>, <<"bool", b>>, <<"float64", n>>,        *)
(*                      <<"int", n>>, <<"string", s>>, <<"slice", seq>>,   *)
(*                      <<"nilslice">>, <<"map", f>>, <<"chan">>           *)
(*   error              <<>> (nil) or <<kind>> / <<kind, detail>>          *)
(* A byte sequence holding JSON text is a sequence of lexical tokens; a    *)
(* prefix of the bytes is a prefix of the tokens.  A string token carries  *)
(* the Go string its literal denotes.                                      *)
(***************************************************************************)
EXTENDS Integers, Sequences, FiniteSets, TLC

----------------------------------------------------------------------------
(* Basic Go values *)

Nil == <<>>
Ptr(s) == <<s>>

NoError == <<>>
Err(kind) == <<kind>>

NilMap == <<"nil">>
MkMap(f) == <<"map", f>>
IsNilMap(x) == x[1] = "nil"
Keys(x) == IF x[1] = "nil" THEN {} ELSE DOMAIN x[2]
MapLen(x) == Cardinality(Keys(x))
MapPut(f, k, v) == [x \in (DOMAIN f) \cup {k} |-> IF x = k THEN v ELSE f[x]]

\* utils.NilIfZero[string]: nil for the zero value, else a pointer to a copy.
NilIfZero(s) == IF s = "" THEN Nil ELSE Ptr(s)

\* The zero values of the two structs: Manifest{} and ManifestEntry{}.
EmptyManifest ==
    [Version |-> 0, StoragePolicy |-> "",
     StoragePolicyConfig |-> [StorageLayout |-> ""], Contents |-> NilMap]

EmptyManifestEntry ==
    [Digest |-> "", BirthArtifactID |-> Nil, Ref |-> Nil, Size |-> 0,
     Extra |-> NilMap, LocalPath |-> Nil, DownloadURL |-> Nil]

----------------------------------------------------------------------------
(* Strings.  A Go string is any byte sequence.  "a<FF>" stands for the     *)
(* two bytes 'a', 0xFF (not valid UTF-8); encoding/json replaces each      *)
(* invalid byte by U+FFFD when it writes or reads a string literal, which  *)
(* gives the string written here "a<U+FFFD>".                              *)

InvalidUTF8 == {"a<FF>"}
ToValidUTF8(s) == IF s = "a<FF>" THEN "a<U+FFFD>" ELSE s

\* Every string used as a map key, in the byte order sort.Strings gives.
SortedKeys == <<"a", "a<FF>", "a<U+FFFD>", "b", "c", "k", "k2", "model.pt">>

----------------------------------------------------------------------------
(* JSON text as tokens.  The encoders return <<error, tokens>>.            *)

T(p) == <<p>>
TStr(s) == <<"str", s>>
TNum(n) == <<"num", n>>

ErrUnsupported == Err("json: unsupported type")

\* open, the tokens of r, close; or r's error.
Wrap(r, open, close) ==
    IF r[1] # NoError THEN <<r[1], <<>>>>
    ELSE <<NoError, <<T(open)>> \o r[2] \o <<T(close)>>>>

\* before, then the tokens of h, then those of t; the first error wins.
Join(before, h, t) ==
    IF h[1] # NoError THEN <<h[1], <<>>>>
    ELSE IF t[1] # NoError THEN <<t[1], <<>>>>
    ELSE <<NoError, before \o h[2] \o t[2]>>

Comma(first) == IF first THEN <<>> ELSE <<T(",")>>
Member(first, k) == Comma(first) \o <<TStr(ToValidUTF8(k)), T(":")>>

\* json.Marshal of an interface{} value.
RECURSIVE MarshalValue(_)
RECURSIVE MarshalSlice(_, _)
RECURSIVE MarshalMapFrom(_, _, _)
MarshalValue(v) ==
    CASE v[1] = "nil" -> <<NoError, <<T("null")>>>>
      [] v[1] = "nilslice" -> <<NoError, <<T("null")>>>>
      [] v[1] = "bool" -> <<NoError, <<T(IF v[2] THEN "true" ELSE "false")>>>>
      [] v[1] = "float64" -> <<NoError, <<TNum(v[2])>>>>
      [] v[1] = "int" -> <<NoError, <<TNum(v[2])>>>>
      [] v[1] = "string" -> <<NoError, <<TStr(ToValidUTF8(v[2]))>>>>
      [] v[1] = "slice" -> Wrap(MarshalSlice(v[2], 1), "[", "]")
      [] v[1] = "map" -> Wrap(MarshalMapFrom(v[2], 1, TRUE), "{", "}")
      [] OTHER -> <<ErrUnsupported, <<>>>>

MarshalSlice(s, i) ==
    IF i > Len(s) THEN <<NoError, <<>>>>
    ELSE Join(Comma(i = 1), MarshalValue(s[i]), MarshalSlice(s, i + 1))

\* The members of a map[string]interface{}, keys sorted; first: no member yet.
MarshalMapFrom(g, i, first) ==
    IF i > Len(SortedKeys) THEN <<NoError, <<>>>>
    ELSE IF SortedKeys[i] \notin DOMAIN g THEN MarshalMapFrom(g, i + 1, first)
    ELSE Join(Member(first, SortedKeys[i]),
              MarshalValue(g[SortedKeys[i]]), MarshalMapFrom(g, i + 1, FALSE))

\* As if the pointer fields were plain strings: nil is written as "".
MarshalPtrAsString(p) == IF p = Nil THEN <<TStr("")>> ELSE <<TStr(ToValidUTF8(p[1]))>>

MarshalPtr(p) == IF p = Nil THEN <<T("null")>> ELSE <<TStr(ToValidUTF8(p[1]))>>

\* The members of an entry, x being its encoded extra (lines 25-33):
\* "ref" is left out when nil, "extra" when empty, the "-" fields always.
EntryTokens(e, x) ==
    IF x[1] # NoError THEN <<x[1], <<>>>>
    ELSE <<NoError,
           <<T("{"), TStr("digest"), T(":"), TStr(ToValidUTF8(e.Digest)),
             T(","), TStr("birthArtifactID"), T(":")>>
           \o MarshalPtr(e.BirthArtifactID)
           \o (IF e.Ref = Nil THEN <<>>
               ELSE <<T(","), TStr("ref"), T(":")>> \o MarshalPtr(e.Ref))
           \o <<T(","), TStr("size"), T(":"), TNum(e.Size)>>
           \o (IF x[2] = <<>> THEN <<>>
               ELSE <<T(","), TStr("extra"), T(":")>> \o x[2])
           \o <<T("}")>> >>

\* json.Marshal of a ManifestEntry.
MarshalEntry(e) ==
    EntryTokens(e, IF MapLen(e.Extra) = 0 THEN <<NoError, <<>>>>
                   ELSE MarshalValue(e.Extra))

RECURSIVE MarshalContentsFrom(_, _, _)
MarshalContentsFrom(g, i, first) ==
    IF i > Len(SortedKeys) THEN <<NoError, <<>>>>
    ELSE IF SortedKeys[i] \notin DOMAIN g THEN MarshalContentsFrom(g, i + 1, first)
    ELSE Join(Member(first, SortedKeys[i]),
              MarshalEntry(g[SortedKeys[i]]), MarshalContentsFrom(g, i + 1, FALSE))

\* The members of a Manifest, c being its encoded contents (lines 14-23).
ManifestTokens(mf, c) ==
    IF c[1] # NoError THEN <<c[1], <<>>>>
    ELSE <<NoError,
           <<T("{"), TStr("version"), T(":"), TNum(mf.Version),
             T(","), TStr("storagePolicy"), T(":"),
             TStr(ToValidUTF8(mf.StoragePolicy)),
             T(","), TStr("storagePolicyConfig"), T(":"),
             T("{"), TStr("storageLayout"), T(":"),
             TStr(ToValidUTF8(mf.StoragePolicyConfig.StorageLayout)), T("}"),
             T(","), TStr("contents"), T(":")>>
           \o c[2] \o <<T("}")>> >>

\* json.Marshal(m) for a Manifest: <<error, data>>, data empty on error.
Marshal(mf) ==
    ManifestTokens(mf, IF IsNilMap(mf.Contents) THEN <<NoError, <<T("null")>>>>
                       ELSE Wrap(MarshalContentsFrom(mf.Contents[2], 1, TRUE),
                                 "{", "}"))

----------------------------------------------------------------------------
(* Reading JSON text: the syntax check and scan of encoding/json, giving a *)
(* parse tree  <<"null">> | <<"bool", b>> | <<"num", n>> | <<"str", s>> |  *)
(* <<"arr", trees>> | <<"obj", <<key, tree>> pairs in text order>>.        *)
(* The parsers return <<ok, tree, index after the value>>.                 *)

Tok(toks, i) == IF i >= 1 /\ i <= Len(toks) THEN toks[i] ELSE <<"eof">>
ParseFail == <<FALSE, <<"null">>, 0>>

RECURSIVE ParseValue(_, _)
RECURSIVE ParseElems(_, _, _)
RECURSIVE AfterElem(_, _, _)
RECURSIVE ParseMembers(_, _, _)
RECURSIVE AfterMember(_, _, _, _)
ParseToken(toks, i, t) ==
    CASE t[1] = "null" -> <<TRUE, <<"null">>, i + 1>>
      [] t[1] = "true" -> <<TRUE, <<"bool", TRUE>>, i + 1>>
      [] t[1] = "false" -> <<TRUE, <<"bool", FALSE>>, i + 1>>
      [] t[1] = "num" -> <<TRUE, <<"num", t[2]>>, i + 1>>
      [] t[1] = "str" -> <<TRUE, <<"str", ToValidUTF8(t[2])>>, i + 1>>
      [] OTHER -> ParseFail

ParseValue(toks, i) ==
    CASE Tok(toks, i)[1] = "[" ->
            IF Tok(toks, i + 1)[1] = "]" THEN <<TRUE, <<"arr", <<>>>>, i + 2>>
            ELSE ParseElems(toks, i + 1, <<>>)
      [] Tok(toks, i)[1] = "{" ->
            IF Tok(toks, i + 1)[1] = "}" THEN <<TRUE, <<"obj", <<>>>>, i + 2>>
            ELSE ParseMembers(toks, i + 1, <<>>)
      [] OTHER -> ParseToken(toks, i, Tok(toks, i))

ParseElems(toks, i, acc) == AfterElem(toks, acc, ParseValue(toks, i))

\* r is the element just parsed: a comma, the closing bracket, or an error.
AfterElem(toks, acc, r) ==
    IF ~r[1] THEN ParseFail
    ELSE IF Tok(toks, r[3])[1] = ","
         THEN ParseElems(toks, r[3] + 1, Append(acc, r[2]))
    ELSE IF Tok(toks, r[3])[1] = "]"
         THEN <<TRUE, <<"arr", Append(acc, r[2])>>, r[3] + 1>>
    ELSE ParseFail

ParseMembers(toks, i, acc) ==
    IF Tok(toks, i)[1] # "str" \/ Tok(toks, i + 1)[1] # ":" THEN ParseFail
    ELSE AfterMember(toks, acc, ToValidUTF8(Tok(toks, i)[2]), ParseValue(toks, i + 2))

AfterMember(toks, acc, k, r) ==
    IF ~r[1] THEN ParseFail
    ELSE IF Tok(toks, r[3])[1] = ","
         THEN ParseMembers(toks, r[3] + 1, Append(acc, <<k, r[2]>>))
    ELSE IF Tok(toks, r[3])[1] = "}"
         THEN <<TRUE, <<"obj", Append(acc, <<k, r[2]>>)>>, r[3] + 1>>
    ELSE ParseFail

\* A whole text is one value and nothing after it.  <<ok, tree>>
WholeText(toks, r) ==
    IF r[1] /\ r[3] = Len(toks) + 1 THEN <<TRUE, r[2]>> ELSE <<FALSE, <<"null">>>>

ParseJSON(toks) == WholeText(toks, ParseValue(toks, 1))

\* The index of the last member of ps named k.
LastNamed(ps, k) ==
    CHOOSE i \in 1..Len(ps) :
        /\ ps[i][1] = k
        /\ \A j \in 1..Len(ps) : ps[j][1] = k => j <= i

\* The value json.Unmarshal stores in an interface{}: numbers as float64,
\* objects as map[string]interface{} (a repeated key keeps its last value).
RECURSIVE ToInterface(_)
ToInterface(t) ==
    CASE t[1] = "null" -> <<"nil">>
      [] t[1] = "bool" -> <<"bool", t[2]>>
      [] t[1] = "num" -> <<"float64", t[2]>>
      [] t[1] = "str" -> <<"string", t[2]>>
      [] t[1] = "arr" -> <<"slice", [i \in 1..Len(t[2]) |-> ToInterface(t[2][i])]>>
      [] t[1] = "obj" ->
            <<"map", [k \in {t[2][i][1] : i \in 1..Len(t[2])} |->
                        ToInterface(t[2][LastNamed(t[2], k)][2])]>>

ErrSyntax == Err("json: syntax error")

InterfaceOf(p) == IF ~p[1] THEN <<ErrSyntax, <<"nil">>>> ELSE <<NoError, ToInterface(p[2])>>

\* json.Unmarshal([]byte(text), &value) with value an interface{}: <<error, value>>
UnmarshalInterface(toks) == InterfaceOf(ParseJSON(toks))

----------------------------------------------------------------------------
(* Decoding a parse tree into the Manifest struct.  A value of the wrong   *)
(* JSON type is an UnmarshalTypeError: the decoder keeps the first one,    *)
(* skips that value and goes on, so the fields decoded before and after    *)
(* it are set.  Every decoder returns <<value, error>>.                    *)

TypeError == Err("json: cannot unmarshal")
FirstErr(a, b) == IF a # NoError THEN a ELSE b

\* The struct with field set to what r decoded, and r's error.
SetField(rec, field, r) == <<[rec EXCEPT ![field] = r[1]], r[2]>>

\* r after an earlier error err.
After(err, r) == <<r[1], FirstErr(err, r[2])>>

DecodeString(t, cur) ==
    CASE t[1] = "str" -> <<t[2], NoError>>
      [] t[1] = "null" -> <<cur, NoError>>
      [] OTHER -> <<cur, TypeError>>

\* int32 and int64 fields; the numbers of the texts modelled are integers
\* that fit the field.
DecodeInt(t, cur) ==
    CASE t[1] = "num" -> <<t[2], NoError>>
      [] t[1] = "null" -> <<cur, NoError>>
      [] OTHER -> <<cur, TypeError>>

\* *string: null stores nil; any other value allocates the string first.
DecodePtr(t, cur) ==
    CASE t[1] = "str" -> <<Ptr(t[2]), NoError>>
      [] t[1] = "null" -> <<Nil, NoError>>
      [] OTHER -> <<IF cur = Nil THEN Ptr("") ELSE cur, TypeError>>

\* map[string]interface{}: null stores nil; an object adds to the map.
RECURSIVE PutAll(_, _, _)
PutAll(g, ps, i) ==
    IF i > Len(ps) THEN g
    ELSE PutAll(MapPut(g, ps[i][1], ToInterface(ps[i][2])), ps, i + 1)

DecodeExtra(t, cur) ==
    CASE t[1] = "obj" ->
            <<MkMap(PutAll(IF IsNilMap(cur) THEN <<>> ELSE cur[2], t[2], 1)), NoError>>
      [] t[1] = "null" -> <<NilMap, NoError>>
      [] OTHER -> <<cur, TypeError>>

\* One member of an entry object; the fields tagged "-" have no JSON name.
\* The member names of the texts modelled are spelled as the tags spell them.
DecodeEntryField(e, k, t) ==
    CASE k = "digest" -> SetField(e, "Digest", DecodeString(t, e.Digest))
      [] k = "birthArtifactID" ->
            SetField(e, "BirthArtifactID", DecodePtr(t, e.BirthArtifactID))
      [] k = "ref" -> SetField(e, "Ref", DecodePtr(t, e.Ref))
      [] k = "size" -> SetField(e, "Size", DecodeInt(t, e.Size))
      [] k = "extra" -> SetField(e, "Extra", DecodeExtra(t, e.Extra))
      [] OTHER -> <<e, NoError>>

\* acc is <<entry so far, first error so far>>.
RECURSIVE DecodeEntryFrom(_, _, _)
DecodeEntryFrom(acc, ps, i) ==
    IF i > Len(ps) THEN acc
    ELSE DecodeEntryFrom(
             After(acc[2], DecodeEntryField(acc[1], ps[i][1], ps[i][2])), ps, i + 1)

DecodeEntry(t, cur) ==
    CASE t[1] = "obj" -> DecodeEntryFrom(<<cur, NoError>>, t[2], 1)
      [] t[1] = "null" -> <<cur, NoError>>
      [] OTHER -> <<cur, TypeError>>

\* The map with r's entry stored under k, and r's error.
PutEntry(g, k, r) == <<MapPut(g, k, r[1]), r[2]>>

\* map[string]ManifestEntry: every member is decoded into a zero entry and
\* stored under its key, whether or not its value had the right type.
RECURSIVE DecodeContentsFrom(_, _, _)
DecodeContentsFrom(acc, ps, i) ==
    IF i > Len(ps) THEN <<MkMap(acc[1]), acc[2]>>
    ELSE DecodeContentsFrom(
             After(acc[2], PutEntry(acc[1], ps[i][1],
                                    DecodeEntry(ps[i][2], EmptyManifestEntry))),
             ps, i + 1)

DecodeContents(t, cur) ==
    CASE t[1] = "obj" ->
            DecodeContentsFrom(<<IF IsNilMap(cur) THEN <<>> ELSE cur[2], NoError>>,
                               t[2], 1)
      [] t[1] = "null" -> <<NilMap, NoError>>
      [] OTHER -> <<cur, TypeError>>

DecodeConfigField(c, k, t) ==
    IF k = "storageLayout"
    THEN SetField(c, "StorageLayout", DecodeString(t, c.StorageLayout))
    ELSE <<c, NoError>>

RECURSIVE DecodeConfigFrom(_, _, _)
DecodeConfigFrom(acc, ps, i) ==
    IF i > Len(ps) THEN acc
    ELSE DecodeConfigFrom(
             After(acc[2], DecodeConfigField(acc[1], ps[i][1], ps[i][2])), ps, i + 1)

DecodeConfig(t, cur) ==
    CASE t[1] = "obj" -> DecodeConfigFrom(<<cur, NoError>>, t[2], 1)
      [] t[1] = "null" -> <<cur, NoError>>
      [] OTHER -> <<cur, TypeError>>

DecodeManifestField(mf, k, t) ==
    CASE k = "version" -> SetField(mf, "Version", DecodeInt(t, mf.Version))
      [] k = "storagePolicy" ->
            SetField(mf, "StoragePolicy", DecodeString(t, mf.StoragePolicy))
      [] k = "storagePolicyConfig" ->
            SetField(mf, "StoragePolicyConfig", DecodeConfig(t, mf.StoragePolicyConfig))
      [] k = "contents" -> SetField(mf, "Contents", DecodeContents(t, mf.Contents))
      [] OTHER -> <<mf, NoError>>

RECURSIVE DecodeManifestFrom(_, _, _)
DecodeManifestFrom(acc, ps, i) ==
    IF i > Len(ps) THEN acc
    ELSE DecodeManifestFrom(
             After(acc[2], DecodeManifestField(acc[1], ps[i][1], ps[i][2])), ps, i + 1)

\* <<error, manifest>> from <<manifest, error>>
ErrFirst(r) == <<r[2], r[1]>>

DecodeManifest(p, mf) ==
    IF ~p[1] THEN <<ErrSyntax, mf>>
    ELSE CASE p[2][1] = "obj" ->
                 ErrFirst(DecodeManifestFrom(<<mf, NoError>>, p[2][2], 1))
           [] p[2][1] = "null" -> <<NoError, mf>>
           [] OTHER -> <<TypeError, mf>>

\* json.Unmarshal(body, &manifest): <<error, what manifest holds afterwards>>.
\* A syntax error is found before anything is stored.
Unmarshal(toks, mf) == DecodeManifest(ParseJSON(toks), mf)

----------------------------------------------------------------------------
(* NewManifestFromProto (lines 35-64).  The wire message is                *)
(*   [Version, StoragePolicy, Contents: sequence of entries], an entry     *)
(*   [Path, Digest, BirthArtifactId, Ref, Size, LocalPath,                 *)
(*    Extra: sequence of [Key, ValueJson]], ValueJson a JSON text.         *)

ErrExtra == Err("manifest entry extra json.Unmarshal")

\* Lines 43-53: the extra map of one entry, or the first decoding error.
RECURSIVE ExtraFromItems(_, _, _)
RECURSIVE ExtraAfter(_, _, _, _)
ExtraFromItems(items, i, extra) ==
    IF i > Len(items) THEN <<NoError, MkMap(extra)>>
    ELSE ExtraAfter(items, i, extra, UnmarshalInterface(items[i].ValueJson))

\* Lines 47-52, r being what json.Unmarshal gave for item i.
ExtraAfter(items, i, extra, r) ==
    IF r[1] # NoError THEN <<ErrExtra, NilMap>>
    ELSE ExtraFromItems(items, i + 1, MapPut(extra, items[i].Key, r[2]))

\* As lines 54-61 with Ref copied as it is instead of through NilIfZero.
NewManifestEntryRefCopied(entry, extra) ==
    [Digest |-> entry.Digest,
     BirthArtifactID |-> NilIfZero(entry.BirthArtifactId),
     Ref |-> Ptr(entry.Ref),
     Size |-> entry.Size,
     Extra |-> extra,
     LocalPath |-> NilIfZero(entry.LocalPath),
     DownloadURL |-> Nil]

\* As lines 54-61 with an empty extra map left out (nil).
NewManifestEntryNilExtra(entry, extra) ==
    [Digest |-> entry.Digest,
     BirthArtifactID |-> NilIfZero(entry.BirthArtifactId),
     Ref |-> NilIfZero(entry.Ref),
     Size |-> entry.Size,
     Extra |-> IF MapLen(extra) = 0 THEN NilMap ELSE extra,
     LocalPath |-> NilIfZero(entry.LocalPath),
     DownloadURL |-> Nil]

\* Lines 54-61: the entry stored under entry.Path.
NewManifestEntry(entry, extra) ==
    [Digest |-> entry.Digest,
     BirthArtifactID |-> NilIfZero(entry.BirthArtifactId),
     Ref |-> NilIfZero(entry.Ref),
     Size |-> entry.Size,
     Extra |-> extra,
     LocalPath |-> NilIfZero(entry.LocalPath),
     DownloadURL |-> Nil]

\* As line 54 with an entry already stored under the path kept.
StoreEntryFirstWins(contents, path, e) ==
    IF path \in DOMAIN contents THEN contents ELSE MapPut(contents, path, e)

\* Line 54: manifest.Contents[entry.Path] = ...
StoreEntry(contents, path, e) == MapPut(contents, path, e)

\* Lines 42-62: the loop over proto.Contents, in list order.
RECURSIVE ContentsFromEntries(_, _, _)
RECURSIVE ContentsAfter(_, _, _, _)
ContentsFromEntries(entries, i, contents) ==
    IF i > Len(entries) THEN <<NoError, MkMap(contents)>>
    ELSE ContentsAfter(entries, i, contents, ExtraFromItems(entries[i].Extra, 1, <<>>))

\* Lines 47-61, x being the extra map of entry i or its error.
ContentsAfter(entries, i, contents, x) ==
    IF x[1] # NoError THEN <<x[1], NilMap>>
    ELSE ContentsFromEntries(
             entries, i + 1,
             StoreEntry(contents, entries[i].Path, NewManifestEntry(entries[i], x[2])))

\* As line 48 returning the manifest under construction beside the error.
ManifestFromContentsPartial(proto, c) ==
    <<[Version |-> proto.Version,
       StoragePolicy |-> proto.StoragePolicy,
       StoragePolicyConfig |-> [StorageLayout |-> "V2"],
       Contents |-> c[2]],
      c[1]>>

\* Lines 36-41, 48 and 63: what is returned, c being the loop's outcome.
ManifestFromContents(proto, c) ==
    IF c[1] # NoError THEN <<EmptyManifest, c[1]>>
    ELSE <<[Version |-> proto.Version,
            StoragePolicy |-> proto.StoragePolicy,
            StoragePolicyConfig |-> [StorageLayout |-> "V2"],
            Contents |-> c[2]],
           NoError>>

\* <<Manifest, error>>
NewManifestFromProto(proto) ==
    ManifestFromContents(proto, ContentsFromEntries(proto.Contents, 1, <<>>))

----------------------------------------------------------------------------
(* GetManifestEntryFromArtifactFilePath (lines 87-94): <<entry, error>>    *)

ErrNotContained(path) == <<"path not contained in artifact", path>>

\* As lines 87-94 with a leading "./" dropped from the path first.
GetManifestEntryCleanPath(mf, path) ==
    IF (IF path = "./a" THEN "a" ELSE path) \in Keys(mf.Contents)
    THEN <<mf.Contents[2][IF path = "./a" THEN "a" ELSE path], NoError>>
    ELSE <<EmptyManifestEntry, ErrNotContained(path)>>

GetManifestEntryFromArtifactFilePath(mf, path) ==
    IF path \in Keys(mf.Contents)
    THEN <<mf.Contents[2][path], NoError>>
    ELSE <<EmptyManifestEntry, ErrNotContained(path)>>

----------------------------------------------------------------------------
(* loadManifestFromURL (lines 96-115).  The outcome of http.Get is either  *)
(* a transport error or a response [StatusCode, Body, ReadFails]: Body is  *)
(* the text the server sends, ReadFails whether the connection breaks      *)
(* while the body is read.  The result records what was done with the      *)
(* body: [manifest, err, bodyRead, bodyParsed, bodyClosed].                *)

StatusOK == 200

ErrStatus(code) == <<"request to get manifest from url failed with status code", code>>
ErrRead == Err("error reading response body")
ErrGet == Err("http.Get")

\* As line 112 returning the manifest variable instead of Manifest{}.
AfterUnmarshalKeepsManifest(u) == <<u[2], NoError>>

\* Lines 111-114, u being what json.Unmarshal gave: <<Manifest, error>>.
AfterUnmarshal(u) ==
    IF u[1] # NoError THEN <<EmptyManifest, NoError>>
    ELSE <<u[2], NoError>>

\* Lines 102 and 110: the body is decoded into a zero Manifest.
LoadDecode(body) == AfterUnmarshal(Unmarshal(body, EmptyManifest))

Returned(result, read, parsed, closed) ==
    [manifest |-> result[1], err |-> result[2],
     bodyRead |-> read, bodyParsed |-> parsed, bodyClosed |-> closed]

\* As lines 103-114 with the body read before the status is looked at.
LoadFromResponseReadFirst(r) ==
    IF r.ReadFails
    THEN Returned(<<EmptyManifest, ErrRead>>, TRUE, FALSE, TRUE)
    ELSE IF r.StatusCode # StatusOK
    THEN Returned(<<EmptyManifest, ErrStatus(r.StatusCode)>>, TRUE, FALSE, TRUE)
    ELSE Returned(LoadDecode(r.Body), TRUE, TRUE, TRUE)

\* Lines 103-114 and the deferred Close of line 101.
LoadFromResponse(r) ==
    IF r.StatusCode # StatusOK
    THEN Returned(<<EmptyManifest, ErrStatus(r.StatusCode)>>, FALSE, FALSE, TRUE)
    ELSE IF r.ReadFails
    THEN Returned(<<EmptyManifest, ErrRead>>, TRUE, FALSE, TRUE)
    ELSE Returned(LoadDecode(r.Body), TRUE, TRUE, TRUE)

\* Lines 97-100: got is <<"error">> or <<"response", r>>.
LoadManifestFromURL(got) ==
    IF got[1] = "error"
    THEN Returned(<<EmptyManifest, ErrGet>>, FALSE, FALSE, FALSE)
    ELSE LoadFromResponse(got[2])

\* utils.ComputeB64MD5(data): the digest of a byte sequence, as a term;
\* NoDigest is the empty string it returns beside an error.
B64MD5(bytes) == <<"b64md5", bytes>>
NoDigest == <<"">>

----------------------------------------------------------------------------
(* The inputs the operations are called with *)

\* Longest wire entry list.
MaxProtoEntries == 2

TextOne == <<TNum(1)>>
TextX == <<TStr("x")>>
TextObject == <<T("{"), TStr("k"), T(":"), T("null"), T("}")>>
TextEmpty == <<>>
TextTruncated == <<T("["), TNum(1)>>
TextWord == <<T("nope")>>

Item(k, text) == [Key |-> k, ValueJson |-> text]

ValidExtraLists ==
    { <<>>,
      <<Item("k", TextOne)>>,
      <<Item("k", TextX)>>,
      <<Item("k", TextOne), Item("k2", TextObject)>>,
      <<Item("k", TextOne), Item("k", TextX)>> }

InvalidExtraLists ==
    { <<Item("k", TextEmpty)>>,
      <<Item("k", TextOne), Item("k2", TextTruncated)>>,
      <<Item("k", TextWord), Item("k2", TextOne)>> }

ProtoPaths == {"a", "model.pt"}

ProtoEntries ==
    [Path : ProtoPaths, Digest : {"abc123"}, BirthArtifactId : {"", "QXJ0"},
     Ref : {"", "s3://b/k"}, Size : {1024}, LocalPath : {"", "/tmp/x"},
     Extra : {<<>>}]
    \cup
    [Path : ProtoPaths, Digest : {"d0"}, BirthArtifactId : {""},
     Ref : {""}, Size : {0}, LocalPath : {""},
     Extra : (ValidExtraLists \cup InvalidExtraLists) \ {<<>>}]

SeqsUpTo(S, n) == UNION {[1..k -> S] : k \in 0..n}

Protos ==
    [Version : {1}, StoragePolicy : {"wandb-storage-policy-v1"},
     Contents : SeqsUpTo(ProtoEntries, MaxProtoEntries)]
    \cup
    [Version : {0}, StoragePolicy : {""},
     Contents : SeqsUpTo(ProtoEntries, MaxProtoEntries)]

\* Manifests a caller builds field by field (the struct's fields are exported).
BuiltExtras ==
    { NilMap,
      MkMap(<<>>),
      MkMap([k \in {"k"} |-> <<"float64", 7>>]),
      MkMap([k \in {"k"} |-> <<"int", 7>>]),
      MkMap([k \in {"k"} |-> <<"chan">>]),
      MkMap([k \in {"k"} |-> <<"nilslice">>]),
      MkMap([k \in {"k"} |-> <<"slice", <<<<"string", "x">>, <<"map", <<>>>>, <<"nil">>>>>>]),
      MkMap([k \in {"k"} |-> <<"string", "a<FF>">>]),
      MkMap([k \in {"a<FF>"} |-> <<"bool", TRUE>>]) }

BuiltEntries ==
    [Digest : {"abc123", "a<FF>"}, BirthArtifactID : {Nil, Ptr("QXJ0")},
     Ref : {Nil, Ptr(""), Ptr("s3://b/k")}, Size : {1024}, Extra : BuiltExtras,
     LocalPath : {Nil}, DownloadURL : {Nil}]
    \cup
    [Digest : {"abc123"}, BirthArtifactID : {Nil},
     Ref : {Nil}, Size : {0}, Extra : BuiltExtras,
     LocalPath : {Ptr("/tmp/x")}, DownloadURL : {Ptr("https://u/a")}]

BuiltManifests ==
    { [Version |-> 1, StoragePolicy |-> "wandb-storage-policy-v1",
       StoragePolicyConfig |-> [StorageLayout |-> "V2"],
       Contents |-> MkMap([k \in {"a"} |-> e])] : e \in BuiltEntries }
    \cup
    { EmptyManifest,
      [Version |-> 2, StoragePolicy |-> "a<FF>",
       StoragePolicyConfig |-> [StorageLayout |-> "V1"],
       Contents |-> MkMap([k \in {"a<FF>", "a<U+FFFD>"} |->
                             [EmptyManifestEntry EXCEPT !.Digest = k]])] }

LookupPaths == {"a", "model.pt", "A", "./a", ""}

\* Response bodies.
BodyScenario ==
    <<T("{"), TStr("version"), T(":"), TNum(1), T(","),
      TStr("storagePolicy"), T(":"), TStr("v2"), T(","),
      TStr("storagePolicyConfig"), T(":"),
      T("{"), TStr("storageLayout"), T(":"), TStr("V2"), T("}"), T(","),
      TStr("contents"), T(":"), T("{"), T("}"), T("}")>>
BodyOneEntry ==
    <<T("{"), TStr("version"), T(":"), TNum(1), T(","),
      TStr("contents"), T(":"), T("{"), TStr("a"), T(":"),
      T("{"), TStr("digest"), T(":"), TStr("abc123"), T(","),
      TStr("birthArtifactID"), T(":"), T("null"), T(","),
      TStr("size"), T(":"), TNum(1024), T(","),
      TStr("localPath"), T(":"), TStr("/tmp/x"), T("}"), T("}"), T("}")>>
\* "storagePolicy" holds a number: a type error between two good fields.
BodyWrongType ==
    <<T("{"), TStr("version"), T(":"), TNum(1), T(","),
      TStr("storagePolicy"), T(":"), TNum(5), T(","),
      TStr("contents"), T(":"), T("{"), TStr("a"), T(":"), TNum(3), T("}"), T("}")>>
BodyTruncated == SubSeq(BodyScenario, 1, 9)
BodyHTML == <<T("<html>")>>

Bodies ==
    { BodyScenario, BodyOneEntry, BodyWrongType, BodyTruncated, BodyHTML,
      <<>>, <<T("null")>>, <<T("["), T("]")>> }

StatusCodes == {StatusOK, 204, 404, 500}

GetResults ==
    { <<"error">> }
    \cup { <<"response", r>> :
             r \in [StatusCode : StatusCodes, Body : Bodies, ReadFails : BOOLEAN] }

TempNames == {"/tmp/tmpfile-1", "/tmp/tmpfile-2"}

----------------------------------------------------------------------------
(* State *)

VARIABLES
    m,          \* the Manifest the caller holds (the receiver of the methods)
    call,       \* the operation last called, with its arguments
    ret,        \* what that operation returned
    pc,         \* position inside WriteToFile, "idle" outside it
    data,       \* WriteToFile: the serialized bytes
    f,          \* WriteToFile: the temporary file's name once created, else nil
    filename,   \* WriteToFile: named results
    digest,
    rerr,
    fs,         \* the files the operation last called has created
    openFds     \* names of the files this process holds open

vars == <<m, call, ret, pc, data, f, filename, digest, rerr, fs, openFds>>
locals == <<data, f, filename, digest, rerr>>

\* fs is a set of <<name, bytes>> pairs, one per file.
NoFiles == {}
FileNames == {p[1] : p \in fs}
FileOf(name) == (CHOOSE p \in fs : p[1] = name)[2]
WithFile(name, bytes) == {p \in fs : p[1] # name} \cup {<<name, bytes>>}

Init ==
    /\ m = EmptyManifest
    /\ call = <<"none">>
    /\ ret = <<>>
    /\ pc = "idle"
    /\ data = <<>>
    /\ f = Nil
    /\ filename = ""
    /\ digest = NoDigest
    /\ rerr = NoError
    /\ fs = NoFiles
    /\ openFds = {}

ResetFrame ==
    /\ data' = <<>>
    /\ f' = Nil
    /\ filename' = ""
    /\ digest' = NoDigest
    /\ rerr' = NoError

\* A caller obtains its Manifest once, by conversion, by construction or by
\* loading, and then uses it.  Each of the three replaces the whole state, so
\* calling one of them again later would reach no state not reached here.

\* manifest, err := NewManifestFromProto(proto)
Convert ==
    /\ call = <<"none">>
    /\ \E proto \in Protos :
          /\ call' = <<"NewManifestFromProto", proto>>
          /\ ret' = NewManifestFromProto(proto)
          /\ m' = ret'[1]
    /\ UNCHANGED <<pc, locals, fs, openFds>>

\* The caller fills in a Manifest itself.
Build ==
    /\ call = <<"none">>
    /\ \E mf \in BuiltManifests :
          /\ m' = mf
          /\ call' = <<"build">>
          /\ ret' = <<>>
    /\ UNCHANGED <<pc, locals, fs, openFds>>

\* entry, err := m.GetManifestEntryFromArtifactFilePath(path)
Lookup ==
    /\ pc = "idle"
    /\ \E path \in LookupPaths :
          /\ call' = <<"GetManifestEntryFromArtifactFilePath", path>>
          /\ ret' = GetManifestEntryFromArtifactFilePath(m, path)
    /\ fs' = NoFiles
    /\ UNCHANGED <<m, pc, locals, openFds>>

\* manifest, err := loadManifestFromURL(url)
Load ==
    /\ call = <<"none">>
    /\ \E got \in GetResults :
          /\ call' = <<"loadManifestFromURL", got>>
          /\ ret' = LoadManifestFromURL(got)
          /\ m' = ret'.manifest
    /\ UNCHANGED <<pc, locals, fs, openFds>>

----------------------------------------------------------------------------
(* WriteToFile (lines 66-85), one action per statement and exit.  The      *)
(* results are named (filename, digest, rerr), so a bare return returns    *)
(* what they hold; the deferred f.Close() of line 76 runs at every return  *)
(* after it, and at none before it.                                        *)

ErrCreateTemp == Err("os.CreateTemp")
ErrWrite == Err("write")
ErrMD5 == Err("ComputeB64MD5")

\* A return that runs no deferred call (lines 69 and 74).
ReturnNow(name, dig, err) ==
    /\ ret' = <<name, dig, err>>
    /\ pc' = "idle"
    /\ ResetFrame

\* Lines 67-70, json.Marshal succeeds.
MarshalOK ==
    /\ pc = "idle"
    /\ \E r \in {Marshal(m)} :
          /\ r[1] = NoError
          /\ data' = r[2]
          /\ rerr' = r[1]
    /\ call' = <<"WriteToFile">>
    /\ ret' = <<>>
    /\ pc' = "create"
    /\ fs' = NoFiles
    /\ UNCHANGED <<m, f, filename, digest, openFds>>

\* Lines 67-70, json.Marshal fails: return.
MarshalFail ==
    /\ pc = "idle"
    /\ \E r \in {Marshal(m)} :
          /\ r[1] # NoError
          /\ ReturnNow(filename, digest, r[1])
    /\ call' = <<"WriteToFile">>
    /\ fs' = NoFiles
    /\ UNCHANGED <<m, openFds>>

\* Lines 72-76, os.CreateTemp gives a new, empty, open file.
CreateTempOK ==
    /\ pc = "create"
    /\ \E name \in TempNames \ FileNames :
          /\ f' = Ptr(name)
          /\ fs' = WithFile(name, <<>>)
          /\ openFds' = openFds \cup {name}
    /\ pc' = "write"
    /\ UNCHANGED <<m, call, ret, data, filename, digest, rerr>>

\* Lines 72-75, os.CreateTemp fails: return.
CreateTempFail ==
    /\ pc = "create"
    /\ ReturnNow(filename, digest, ErrCreateTemp)
    /\ UNCHANGED <<m, call, fs, openFds>>

\* Line 77, f.Write writes all of data.
WriteOK ==
    /\ pc = "write"
    /\ fs' = WithFile(f[1], data)
    /\ pc' = "digest"
    /\ UNCHANGED <<m, call, ret, locals, openFds>>

\* The lengths a failed write may have got through.
PartialLens(bytes) == {0, Len(bytes) \div 2, Len(bytes) - 1} \cap (0..(Len(bytes) - 1))

\* As lines 77-80 with the Close not deferred: the failed write returns at once.
WriteFailNoClose ==
    /\ pc = "write"
    /\ \E n \in PartialLens(data) : fs' = WithFile(f[1], SubSeq(data, 1, n))
    /\ ReturnNow(filename, digest, ErrWrite)
    /\ UNCHANGED <<m, call, openFds>>

\* Lines 77-80, f.Write fails after n bytes: return, the deferred Close pending.
WriteFail ==
    /\ pc = "write"
    /\ \E n \in PartialLens(data) : fs' = WithFile(f[1], SubSeq(data, 1, n))
    /\ rerr' = ErrWrite
    /\ pc' = "return"
    /\ UNCHANGED <<m, call, ret, data, f, filename, digest, openFds>>

\* As lines 81-84 with the digest taken of a fresh, empty buffer.
DigestOfNothing ==
    /\ pc = "digest"
    /\ filename' = f[1]
    /\ digest' = B64MD5(<<>>)
    /\ rerr' = NoError
    /\ pc' = "return"
    /\ UNCHANGED <<m, call, ret, data, f, fs, openFds>>

\* Lines 81-84, the digest of data is computed.
DigestOK ==
    /\ pc = "digest"
    /\ filename' = f[1]
    /\ digest' = B64MD5(data)
    /\ rerr' = NoError
    /\ pc' = "return"
    /\ UNCHANGED <<m, call, ret, data, f, fs, openFds>>

\* Lines 81-84, ComputeB64MD5 fails.
DigestFail ==
    /\ pc = "digest"
    /\ filename' = f[1]
    /\ digest' = NoDigest
    /\ rerr' = ErrMD5
    /\ pc' = "return"
    /\ UNCHANGED <<m, call, ret, data, f, fs, openFds>>

\* The deferred f.Close() (line 76), then the return to the caller.
Return ==
    /\ pc = "return"
    /\ openFds' = openFds \ {f[1]}
    /\ ReturnNow(filename, digest, rerr)
    /\ UNCHANGED <<m, call, fs>>

Next ==
    \/ Convert
    \/ Build
    \/ Lookup
    \/ Load
    \/ MarshalOK
    \/ MarshalFail
    \/ CreateTempOK
    \/ CreateTempFail
    \/ WriteOK
    \/ WriteFail
    \/ DigestOK
    \/ DigestFail
    \/ Return

Spec == Init /\ [][Next]_vars

----------------------------------------------------------------------------
(* Properties *)

Converted == call[1] = "NewManifestFromProto" /\ ret[2] = NoError
WireEntries == call[2].Contents
WirePaths == {WireEntries[i].Path : i \in 1..Len(WireEntries)}
\* The last wire entry carrying the path.
LastWith(path) ==
    WireEntries[CHOOSE i \in 1..Len(WireEntries) :
                   /\ WireEntries[i].Path = path
                   /\ \A j \in 1..Len(WireEntries) : WireEntries[j].Path = path => j <= i]
Made(path) == ret[1].Contents[2][path]

Wrote == call[1] = "WriteToFile" /\ pc = "idle"
WriteSucceeded == Wrote /\ ret[3] = NoError
\* The written file's bytes parsed as Manifest JSON: <<error, Manifest>>
Reparsed == Unmarshal(FileOf(ret[1]), EmptyManifest)

Loaded == call[1] = "loadManifestFromURL" /\ call[2][1] = "response"
Response == call[2][2]

SameButExtra(e, p) ==
    /\ p.Digest = e.Digest
    /\ p.BirthArtifactID = e.BirthArtifactID
    /\ p.Ref = e.Ref
    /\ p.Size = e.Size

\* C1 as stated: when WriteToFile succeeds, the written file parses to a
\* Manifest equal to m in version, storagePolicy, storagePolicyConfig and, for
\* every path of contents, in digest, birthArtifactID, ref, size and extra,
\* and no parsed entry has a localPath or a downloadURL.
C1_RoundTripExact ==
    WriteSucceeded =>
        /\ Reparsed[1] = NoError
        /\ Reparsed[2].Version = m.Version
        /\ Reparsed[2].StoragePolicy = m.StoragePolicy
        /\ Reparsed[2].StoragePolicyConfig = m.StoragePolicyConfig
        /\ \A path \in Keys(m.Contents) :
              /\ path \in Keys(Reparsed[2].Contents)
              /\ SameButExtra(m.Contents[2][path], Reparsed[2].Contents[2][path])
              /\ Reparsed[2].Contents[2][path].Extra = m.Contents[2][path].Extra
        /\ \A path \in Keys(Reparsed[2].Contents) :
              /\ Reparsed[2].Contents[2][path].LocalPath = Nil
              /\ Reparsed[2].Contents[2][path].DownloadURL = Nil

\* A value as json.Unmarshal itself stores it in an interface{}.
RECURSIVE Decoded(_)
Decoded(v) ==
    CASE v[1] = "nil" -> TRUE
      [] v[1] = "bool" -> TRUE
      [] v[1] = "float64" -> TRUE
      [] v[1] = "string" -> v[2] \notin InvalidUTF8
      [] v[1] = "slice" -> \A i \in 1..Len(v[2]) : Decoded(v[2][i])
      [] v[1] = "map" -> \A k \in DOMAIN v[2] : k \notin InvalidUTF8 /\ Decoded(v[2][k])
      [] OTHER -> FALSE

ValidPtr(p) == p = Nil \/ p[1] \notin InvalidUTF8

\* Every string of the manifest is valid UTF-8 and every extra value is one
\* JSON decoding produces.
Plain(mf) ==
    /\ mf.StoragePolicy \notin InvalidUTF8
    /\ mf.StoragePolicyConfig.StorageLayout \notin InvalidUTF8
    /\ \A path \in Keys(mf.Contents) :
          /\ path \notin InvalidUTF8
          /\ mf.Contents[2][path].Digest \notin InvalidUTF8
          /\ ValidPtr(mf.Contents[2][path].BirthArtifactID)
          /\ ValidPtr(mf.Contents[2][path].Ref)
          /\ IsNilMap(mf.Contents[2][path].Extra) \/ Decoded(mf.Contents[2][path].Extra)

\* C1 as amended: the same for a manifest whose strings are valid UTF-8 and
\* whose extra values are values JSON decoding produces, except that an extra
\* map that is empty in m is absent (nil) in the parsed entry.
C1_RoundTrip ==
    (WriteSucceeded /\ Plain(m)) =>
        /\ Reparsed[1] = NoError
        /\ Reparsed[2].Version = m.Version
        /\ Reparsed[2].StoragePolicy = m.StoragePolicy
        /\ Reparsed[2].StoragePolicyConfig = m.StoragePolicyConfig
        /\ \A path \in Keys(m.Contents) :
              /\ path \in Keys(Reparsed[2].Contents)
              /\ SameButExtra(m.Contents[2][path], Reparsed[2].Contents[2][path])
              /\ Reparsed[2].Contents[2][path].Extra =
                    IF MapLen(m.Contents[2][path].Extra) = 0 THEN NilMap
                    ELSE m.Contents[2][path].Extra
        /\ \A path \in Keys(Reparsed[2].Contents) :
              /\ Reparsed[2].Contents[2][path].LocalPath = Nil
              /\ Reparsed[2].Contents[2][path].DownloadURL = Nil

\* A written manifest holding an entry with a download URL, a local path, a
\* ref and a non-empty extra map, and another manifest's empty extra map.
C1_Witness ==
    /\ WriteSucceeded /\ Plain(m)
    /\ \E path \in Keys(m.Contents) :
          /\ m.Contents[2][path].DownloadURL # Nil
          /\ m.Contents[2][path].LocalPath # Nil
          /\ MapLen(m.Contents[2][path].Extra) > 0
          /\ Reparsed[2].Contents[2][path].Extra = m.Contents[2][path].Extra
          /\ Reparsed[2].Contents[2][path].DownloadURL = Nil

\* C2: whenever WriteToFile returns without error, the file named by the
\* returned filename holds exactly the serialized bytes of the Manifest and
\* the returned digest is the base64 MD5 of exactly those bytes.
C2_DigestOfWrittenBytes ==
    WriteSucceeded =>
        /\ ret[1] \in FileNames
        /\ FileOf(ret[1]) = Marshal(m)[2]
        /\ ret[2] = B64MD5(FileOf(ret[1]))

C2_Witness ==
    /\ WriteSucceeded
    /\ Keys(m.Contents) # {}
    /\ Len(FileOf(ret[1])) > 0
    /\ ret[2] = B64MD5(FileOf(ret[1]))

\* p is nil exactly when s is empty, and points to s otherwise.
NilIffEmpty(p, s) == IF s = "" THEN p = Nil ELSE p = Ptr(s)

\* C3: in every converted entry each of birthArtifactID, ref and localPath
\* is nil exactly when the wire value is the empty string and holds the
\* identical value otherwise; none is a pointer to an empty string.
C3_EmptyIsAbsent ==
    Converted =>
        \A path \in Keys(ret[1].Contents) :
            /\ NilIffEmpty(Made(path).BirthArtifactID, LastWith(path).BirthArtifactId)
            /\ NilIffEmpty(Made(path).Ref, LastWith(path).Ref)
            /\ NilIffEmpty(Made(path).LocalPath, LastWith(path).LocalPath)
            /\ Made(path).BirthArtifactID # Ptr("")
            /\ Made(path).Ref # Ptr("")
            /\ Made(path).LocalPath # Ptr("")

C3_Witness ==
    /\ Converted
    /\ \E path \in Keys(ret[1].Contents) :
          /\ LastWith(path).Ref = "" /\ Made(path).Ref = Nil
          /\ LastWith(path).BirthArtifactId # ""
          /\ Made(path).BirthArtifactID = Ptr(LastWith(path).BirthArtifactId)
          /\ LastWith(path).LocalPath # ""

InvalidTexts == {TextEmpty, TextTruncated, TextWord}
SomeInvalidValueJson ==
    \E i \in 1..Len(WireEntries) : \E j \in 1..Len(WireEntries[i].Extra) :
        WireEntries[i].Extra[j].ValueJson \in InvalidTexts

C5_LookupExact ==
    [][call'[1] = "GetManifestEntryFromArtifactFilePath" =>
          /\ m' = m
          /\ IF call'[2] \in Keys(m.Contents)
             THEN ret' = <<m.Contents[2][call'[2]], NoError>>
             ELSE ret'[1] = EmptyManifestEntry /\ ret'[2] # NoError]_vars

\* A hit, in a manifest where a path differing only by "./" is no key.
C5_Witness ==
    /\ call = <<"GetManifestEntryFromArtifactFilePath", "a">>
    /\ Keys(m.Contents) = {"a", "model.pt"}
    /\ ret = <<m.Contents[2]["a"], NoError>>
    /\ ret[1] # EmptyManifestEntry

NonSuccess(code) == code < 200 \/ code > 299

\* C6: on a non-success status loadManifestFromURL returns an error carrying
\* the status code and the empty Manifest, and the body is neither read nor
\* parsed.
C6_StatusError ==
    (Loaded /\ NonSuccess(Response.StatusCode)) =>
        /\ ret.err = ErrStatus(Response.StatusCode)
        /\ ret.manifest = EmptyManifest
        /\ ~ret.bodyRead
        /\ ~ret.bodyParsed

C6_Witness ==
    /\ Loaded
    /\ Response.StatusCode = 404
    /\ Response.Body = BodyOneEntry
    /\ ret.err = ErrStatus(404)
    /\ m = EmptyManifest

\* The bodies that do not deserialize as a Manifest.
BadBodies == {BodyWrongType, BodyTruncated, BodyHTML, <<>>, <<T("["), T("]")>>}

\* C7: with status 200 and a fully read body that fails to deserialize, the
\* call returns the empty Manifest and no error; nothing decoded before the
\* failure shows in it.
C7_DecodeErrorSwallowed ==
    (/\ Loaded
     /\ Response.StatusCode = StatusOK
     /\ ~Response.ReadFails
     /\ Response.Body \in BadBodies) =>
        /\ ret.manifest = EmptyManifest
        /\ ret.err = NoError

\* The body whose version decodes before its storagePolicy fails.
C7_Witness ==
    /\ Loaded
    /\ Response.StatusCode = StatusOK
    /\ ~Response.ReadFails
    /\ Response.Body = BodyWrongType
    /\ Unmarshal(Response.Body, EmptyManifest)[1] = TypeError
    /\ Unmarshal(Response.Body, EmptyManifest)[2].Version = 1
    /\ ret.manifest = EmptyManifest
    /\ ret.err = NoError

\* C8 as stated: an entry whose wire extra list is empty has extra absent
\* (nil), with digest and size copied.
C8_ExtraAbsent ==
    Converted =>
        \A path \in Keys(ret[1].Contents) :
            LastWith(path).Extra = <<>> =>
                /\ Made(path).Digest = LastWith(path).Digest
                /\ Made(path).Size = LastWith(path).Size
                /\ Made(path).Extra = NilMap

\* C8 as amended: such an entry has an extra map that is empty but not nil,
\* which the serialized entry leaves out; digest and size are copied.
C8_ExtraEmpty ==
    Converted =>
        \A path \in Keys(ret[1].Contents) :
            LastWith(path).Extra = <<>> =>
                /\ Made(path).Digest = LastWith(path).Digest
                /\ Made(path).Size = LastWith(path).Size
                /\ Made(path).Extra = MkMap(<<>>)
                /\ \A i \in 1..Len(MarshalEntry(Made(path))[2]) :
                      MarshalEntry(Made(path))[2][i] # TStr("extra")

\* The scenario: model.pt, abc123, 1024, no birth artifact, no ref, no extra.
C8_Witness ==
    /\ Converted
    /\ Len(WireEntries) = 1
    /\ WireEntries[1] =
          [Path |-> "model.pt", Digest |-> "abc123", BirthArtifactId |-> "",
           Ref |-> "", Size |-> 1024, LocalPath |-> "", Extra |-> <<>>]
    /\ Made("model.pt").Digest = "abc123"
    /\ Made("model.pt").Size = 1024
    /\ Made("model.pt").BirthArtifactID = Nil
    /\ Made("model.pt").Ref = Nil
    /\ MapLen(Made("model.pt").Extra) = 0

\* The extra map lines 43-53 build from a wire extra list known to be valid:
\* each key with the value of its last item.
ExpectedExtra(items) ==
    MkMap([k \in {items[j].Key : j \in 1..Len(items)} |->
              ToInterface(ParseJSON(
                  items[CHOOSE j \in 1..Len(items) :
                           /\ items[j].Key = k
                           /\ \A h \in 1..Len(items) : items[h].Key = k => h <= j
                       ].ValueJson)[2])])

\* C9: after a successful conversion contents has exactly one entry per
\* distinct wire path, built from the last wire entry carrying that path.
C9_LastWins ==
    Converted =>
        /\ Keys(ret[1].Contents) = WirePaths
        /\ \A path \in WirePaths :
              /\ Made(path).Digest = LastWith(path).Digest
              /\ Made(path).Size = LastWith(path).Size
              /\ NilIffEmpty(Made(path).BirthArtifactID, LastWith(path).BirthArtifactId)
              /\ NilIffEmpty(Made(path).Ref, LastWith(path).Ref)
              /\ NilIffEmpty(Made(path).LocalPath, LastWith(path).LocalPath)
              /\ Made(path).Extra = ExpectedExtra(LastWith(path).Extra)

\* Two wire entries with one path and different digests.
C9_Witness ==
    /\ Converted
    /\ Len(WireEntries) = 2
    /\ WireEntries[1].Path = WireEntries[2].Path
    /\ WireEntries[1].Digest # WireEntries[2].Digest
    /\ Keys(ret[1].Contents) = {WireEntries[2].Path}
    /\ Made(WireEntries[2].Path).Digest = WireEntries[2].Digest

\* C10: WriteToFile holds no open descriptor before the temporary file is
\* created, exactly the one of that file from then until its return, and none
\* once it has returned, on every exit; a call that failed at serialization
\* or at the creation of the file has opened none.
C10_DescriptorClosed ==
    /\ pc \in {"idle", "create"} => openFds = {}
    /\ pc \in {"write", "digest", "return"} => openFds = {f[1]} /\ f[1] \in FileNames
    /\ (Wrote /\ ret[3] \in {ErrUnsupported, ErrCreateTemp}) => FileNames = {}
    /\ (Wrote /\ ret[3] \in {NoError, ErrWrite, ErrMD5}) => FileNames # {}

\* Returned after a failed write: the file exists, short, and is closed.
C10_Witness ==
    /\ Wrote
    /\ ret[3] = ErrWrite
    /\ FileNames # {}
    /\ \A name \in FileNames : Len(FileOf(name)) < Len(Marshal(m)[2])
    /\ openFds = {}

====
